---- MODULE Spec2Model ----
(***************************************************************************)
(* The auction contract of src/src/lib.rs: a NEAR contract whose state      *)
(* lives in independent key-value slots written with storage_write and      *)
(* read back with storage_read, each value Borsh-encoded.                   *)
(*                                                                         *)
(* A call either returns (its storage writes are committed and its promise  *)
(* is scheduled) or panics (the host discards the writes of the call).      *)
(* Methods that are not #[payable] are called without an attached deposit.  *)
(*                                                                         *)
(* Spec runs init, bid, claim and the four accessors with every caller and  *)
(* amount; SpecDemo adds the three fill methods and the two vector getters, *)
(* whose collections keep their elements in slots of their own.  The        *)
(* struct-field contract of tests/default-contract is modelled next to it   *)
(* (default_init, default_bid, default_claim) for the comparison of the two.*)
(***************************************************************************)
EXTENDS Integers, Sequences, FiniteSets, TLC

\* ------------------------------------------------------------------ bounds
MaxTime == 4        \* the clock (block_timestamp) stops advancing here
MaxEndTime == 3     \* end_time arguments of init range over 0..MaxEndTime
MaxAmount == 3      \* attached deposits range over 0..MaxAmount (yoctoNEAR)
MaxFills == 1       \* fill_vector and fill_sdk_vector each succeed at most this often

\* --------------------------------------------------------------- constants
FillCount == 1000   \* for i in 0..1000

\* ---------------------------------------------------------------- accounts
\* AccountId values, as the bytes of their text.
ContractAccount == <<99, 46, 115>>              \* "c.s"
AliceAccount == <<97, 108, 105, 99, 101>>       \* "alice"
BobAccount == <<98, 111, 98>>                   \* "bob"
AuctioneerAccount == <<97, 117, 99, 116>>       \* "auct"

Accounts == {ContractAccount, AliceAccount, BobAccount, AuctioneerAccount}

\* the accounts that try to initialize the contract
InitCallers == {ContractAccount, AliceAccount}

\* the auctioneer arguments of init: an account that only receives, and a bidder
Auctioneers == {AuctioneerAccount, BobAccount}

EndTimes == 0..MaxEndTime

Deposits == 0..MaxAmount

VARIABLES
    storage,        \* the contract's key-value store: a function key -> bytes
    now,            \* env::block_timestamp()
    block_height,   \* env::block_height()
    pre,            \* the storage as it was before the most recent call
    last,           \* the most recent call of the current block and its outcome
    inited,         \* the arguments of the init call that succeeded
    written,        \* the values the successful calls last wrote to the slots
    escrow,         \* the bidders' funds the contract holds, and what claim has paid
    payouts         \* number of transfers scheduled by claim so far

vars == <<storage, pre, now, block_height, last, inited, written, escrow, payouts>>

\* ------------------------------------------------------------------- Borsh
RECURSIVE to_le_bytes(_, _)
\* n as k little-endian bytes
to_le_bytes(n, k) ==
    IF k = 0 THEN <<>> ELSE <<n % 256>> \o to_le_bytes(n \div 256, k - 1)

RECURSIVE from_le_bytes(_)
from_le_bytes(bytes) ==
    IF bytes = <<>> THEN 0 ELSE bytes[1] + 256 * from_le_bytes(Tail(bytes))

to_vec_u32(n) == to_le_bytes(n, 4)

to_vec_U64(n) == to_le_bytes(n, 8)

to_vec_NearToken(n) == to_le_bytes(n, 16)

to_vec_bool(b) == IF b THEN <<1>> ELSE <<0>>

\* a String / AccountId / Vec<u8>: u32 length, then the bytes
to_vec_AccountId(a) == to_vec_u32(Len(a)) \o a

\* slip: two fields written in the other order than they are read
to_vec_Bid_swapped(b) ==
    to_vec_AccountId(b.bidder) \o to_vec_NearToken(b.bid) \o to_vec_U64(b.bid_block_height)
        \o to_vec_U64(b.bid_time) \o to_vec_U64(b.bid_block_timestamp)
        \o to_vec_U64(b.bid_epoch_height) \o to_vec_bool(b.premium)

to_vec_Bid(b) ==
    to_vec_AccountId(b.bidder) \o to_vec_NearToken(b.bid) \o to_vec_U64(b.bid_time)
        \o to_vec_U64(b.bid_block_height) \o to_vec_U64(b.bid_block_timestamp)
        \o to_vec_U64(b.bid_epoch_height) \o to_vec_bool(b.premium)

\* the empty Vec<u8> of init
to_vec_vector == to_vec_u32(0)

\* store::Vector::new(b"s"): length 0 and the prefix
to_vec_sdk_vector == to_vec_u32(0) \o to_vec_AccountId(<<115>>)

\* store::IterableMap::new(b"m"): the key vector (prefix "mv") and the
\* value map (prefix "mm")
to_vec_sdk_iterable_map ==
    to_vec_u32(0) \o to_vec_AccountId(<<109, 118>>) \o to_vec_AccountId(<<109, 109>>)

\* Self {} : a struct without fields encodes to no bytes
to_vec_Contract == <<>>

Ok(v) == [ok |-> TRUE, val |-> v]

DecodeErr(v) == [ok |-> FALSE, val |-> v]

from_slice_U64(bytes) ==
    IF Len(bytes) = 8 THEN Ok(from_le_bytes(bytes)) ELSE DecodeErr(0)

from_slice_bool(bytes) ==
    IF Len(bytes) = 1 /\ bytes[1] \in {0, 1} THEN Ok(bytes[1] = 1) ELSE DecodeErr(FALSE)

from_slice_AccountId(bytes) ==
    IF Len(bytes) >= 4 /\ from_le_bytes(SubSeq(bytes, 1, 4)) = Len(bytes) - 4
    THEN Ok(SubSeq(bytes, 5, Len(bytes)))
    ELSE DecodeErr(<<>>)

NoBid ==
    [bidder |-> <<>>, bid |-> 0, bid_time |-> 0, bid_block_height |-> 0,
     bid_block_timestamp |-> 0, bid_epoch_height |-> 0, premium |-> FALSE]

from_slice_Bid(bytes) ==
    IF Len(bytes) < 4 THEN DecodeErr(NoBid)
    ELSE LET n == from_le_bytes(SubSeq(bytes, 1, 4))
             p == 4 + n
         IN  IF Len(bytes) # p + 16 + 8 + 8 + 8 + 8 + 1 \/ bytes[Len(bytes)] \notin {0, 1}
             THEN DecodeErr(NoBid)
             ELSE Ok([bidder |-> SubSeq(bytes, 5, p),
                      bid |-> from_le_bytes(SubSeq(bytes, p + 1, p + 16)),
                      bid_time |-> from_le_bytes(SubSeq(bytes, p + 17, p + 24)),
                      bid_block_height |-> from_le_bytes(SubSeq(bytes, p + 25, p + 32)),
                      bid_block_timestamp |-> from_le_bytes(SubSeq(bytes, p + 33, p + 40)),
                      bid_epoch_height |-> from_le_bytes(SubSeq(bytes, p + 41, p + 48)),
                      premium |-> bytes[p + 49] = 1])

\* ----------------------------------------------------------------- storage
Some(v) == [some |-> TRUE, val |-> v]

None == [some |-> FALSE, val |-> <<>>]

storage_read(st, key) == IF key \in DOMAIN st THEN Some(st[key]) ELSE None

storage_write(st, key, value) == (key :> value) @@ st

\* the slot the SDK keeps the contract struct in
state_exists(st) == "STATE" \in DOMAIN st

state_write(st) == storage_write(st, "STATE", to_vec_Contract)

\* --------------------------------------------------------------------- env
epoch_height == block_height \div 2

\* what the host tells a call: the block, the contract's own account, the
\* account that made the call and the deposit attached to it
env(predecessor, deposit) ==
    [block_timestamp |-> now, block_height |-> block_height,
     epoch_height |-> epoch_height, current_account_id |-> ContractAccount,
     predecessor_account_id |-> predecessor, attached_deposit |-> deposit]

\* ---------------------------------------------------------------- outcomes
\* What a call produced: the storage as the call left it, the transfer it
\* returned as a promise, the value it returned, or the panic message.
Return(st, transfers, ret) ==
    [ok |-> TRUE, err |-> "", storage |-> st, transfers |-> transfers, ret |-> ret]

Panic(st, msg) ==
    [ok |-> FALSE, err |-> msg, storage |-> st, transfers |-> <<>>, ret |-> <<>>]

UnwrapNone == "called Option::unwrap() on a None value"

UnwrapErr == "called Result::unwrap() on an Err value"

AlreadyInitialized == "The contract has already been initialized"

AuctionEnded == "Auction has ended"

BidTooLow == "You must place a higher bid"

AuctionNotEnded == "Auction has not ended yet"

AlreadyClaimed == "Auction has already been claimed"

Transfer(to, amount) == [to |-> to, amount |-> amount]

\* a slot read the way every method does it:
\* borsh::from_slice(&storage_read(key).unwrap()).unwrap()
\* slip: unwrap_or_default
unwrap_or_default(r, d) == [ok |-> TRUE, err |-> "", val |-> d.val]

unwrap(r, d) ==
    IF ~r.some THEN [ok |-> FALSE, err |-> UnwrapNone, val |-> <<>>]
    ELSE IF d.ok THEN [ok |-> TRUE, err |-> "", val |-> d.val]
    ELSE [ok |-> FALSE, err |-> UnwrapErr, val |-> d.val]

read_U64(st, key) ==
    unwrap(storage_read(st, key), from_slice_U64(storage_read(st, key).val))

read_bool(st, key) ==
    unwrap(storage_read(st, key), from_slice_bool(storage_read(st, key).val))

read_AccountId(st, key) ==
    unwrap(storage_read(st, key), from_slice_AccountId(storage_read(st, key).val))

read_Bid(st, key) ==
    unwrap(storage_read(st, key), from_slice_Bid(storage_read(st, key).val))

\* ----------------------------------------------------------------- methods
\* slip: the reserve floor written as 0
SentinelBid_zero(e) ==
    [bidder |-> e.current_account_id, bid |-> 0, bid_time |-> e.block_timestamp,
     bid_block_height |-> e.block_height, bid_block_timestamp |-> e.block_timestamp,
     bid_epoch_height |-> e.epoch_height, premium |-> FALSE]

\* slip: the sentinel owned by the account that called init
SentinelBid_predecessor(e) ==
    [bidder |-> e.predecessor_account_id, bid |-> 1, bid_time |-> e.block_timestamp,
     bid_block_height |-> e.block_height, bid_block_timestamp |-> e.block_timestamp,
     bid_epoch_height |-> e.epoch_height, premium |-> FALSE]

\* slip: the reserve floor written as 2
SentinelBid_two(e) ==
    [bidder |-> e.current_account_id, bid |-> 2, bid_time |-> e.block_timestamp,
     bid_block_height |-> e.block_height, bid_block_timestamp |-> e.block_timestamp,
     bid_epoch_height |-> e.epoch_height, premium |-> FALSE]

SentinelBid(e) ==
    [bidder |-> e.current_account_id, bid |-> 1, bid_time |-> e.block_timestamp,
     bid_block_height |-> e.block_height, bid_block_timestamp |-> e.block_timestamp,
     bid_epoch_height |-> e.epoch_height, premium |-> FALSE]

\* #[init]: the SDK refuses to run an init method once the state exists
\* slip: #[init(ignore_state)]
InitGuard_ignore_state(st) == TRUE

InitGuard(st) == ~state_exists(st)

init(st, e, end_time, auctioneer) ==
    IF ~InitGuard(st) THEN Panic(st, AlreadyInitialized)
    ELSE LET s1 == storage_write(st, "highest_bid", to_vec_Bid(SentinelBid(e)))
             s2 == storage_write(s1, "auction_end_time", to_vec_U64(end_time))
             s3 == storage_write(s2, "auctioneer", to_vec_AccountId(auctioneer))
             s4 == storage_write(s3, "claimed", to_vec_bool(FALSE))
             s5 == storage_write(s4, "vector", to_vec_vector)
             s6 == storage_write(s5, "s", to_vec_sdk_vector)
             s7 == storage_write(s6, "i", to_vec_sdk_iterable_map)
         IN  Return(state_write(s7), <<>>, <<>>)

\* slip: the operands of the comparison swapped
AuctionOngoing_swapped(block_timestamp, auction_end_time) ==
    auction_end_time < block_timestamp

\* slip: a bid allowed at end_time itself
AuctionOngoing_le(block_timestamp, auction_end_time) == block_timestamp <= auction_end_time

\* slip: the end-time require left out
AuctionOngoing_always(block_timestamp, auction_end_time) == TRUE

AuctionOngoing(block_timestamp, auction_end_time) == block_timestamp < auction_end_time

\* slip: any different amount accepted
HigherBid_ne(bid_amount, last_bid) == bid_amount # last_bid

\* slip: an equal amount accepted
HigherBid_ge(bid_amount, last_bid) == bid_amount >= last_bid

HigherBid(bid_amount, last_bid) == bid_amount > last_bid

\* slip: the block height recorded as the time of the bid
NewBid_height_as_time(e) ==
    [bidder |-> e.predecessor_account_id, bid |-> e.attached_deposit, bid_time |-> e.block_height,
     bid_block_height |-> e.block_height, bid_block_timestamp |-> e.block_timestamp,
     bid_epoch_height |-> e.epoch_height, premium |-> FALSE]

NewBid(e) ==
    [bidder |-> e.predecessor_account_id, bid |-> e.attached_deposit, bid_time |-> e.block_timestamp,
     bid_block_height |-> e.block_height, bid_block_timestamp |-> e.block_timestamp,
     bid_epoch_height |-> e.epoch_height, premium |-> FALSE]

\* slip: the sentinel's unit is not sent back
Refund_skip_sentinel(last_bidder, last_bid) ==
    IF last_bid > 1 THEN <<Transfer(last_bidder, last_bid)>> ELSE <<>>

\* slip: the refund sent with the sentinel's amount
Refund_one_unit(last_bidder, last_bid) == <<Transfer(last_bidder, 1)>>

Refund(last_bidder, last_bid) == <<Transfer(last_bidder, last_bid)>>

bid(st, e) ==
    LET auction_end_time == read_U64(st, "auction_end_time")
    IN  IF ~auction_end_time.ok THEN Panic(st, auction_end_time.err)
        ELSE IF ~AuctionOngoing(e.block_timestamp, auction_end_time.val)
        THEN Panic(st, AuctionEnded)
        ELSE LET highest == read_Bid(st, "highest_bid")
             IN  IF ~highest.ok THEN Panic(st, highest.err)
                 ELSE IF ~HigherBid(e.attached_deposit, highest.val.bid) THEN Panic(st, BidTooLow)
                 ELSE LET s1 == storage_write(st, "highest_bid", to_vec_Bid(NewBid(e)))
                      IN  Return(state_write(s1),
                                 Refund(highest.val.bidder, highest.val.bid), <<>>)

\* slip: claim allowed at any instant but end_time itself
AuctionOver_ne(block_timestamp, auction_end_time) == block_timestamp # auction_end_time

\* slip: claim allowed at end_time itself
AuctionOver_ge(block_timestamp, auction_end_time) == block_timestamp >= auction_end_time

\* slip: the comparison turned around
AuctionOver_lt(block_timestamp, auction_end_time) == block_timestamp < auction_end_time

AuctionOver(block_timestamp, auction_end_time) == block_timestamp > auction_end_time

\* slip: the flag is never written
MarkClaimed_forgotten(st) == st

\* slip: the flag written under the key of another slot
MarkClaimed_wrong_key(st) ==
    storage_write(storage_write(st, "claimed", to_vec_bool(TRUE)), "vector", to_vec_bool(TRUE))

MarkClaimed(st) == storage_write(st, "claimed", to_vec_bool(TRUE))

\* slip: the payout goes to the winning bidder
Payout_to_bidder(auctioneer, highest_bid) ==
    <<Transfer(highest_bid.bidder, highest_bid.bid)>>

Payout(auctioneer, highest_bid) == <<Transfer(auctioneer, highest_bid.bid)>>

claim(st, e) ==
    LET auction_end_time == read_U64(st, "auction_end_time")
    IN  IF ~auction_end_time.ok THEN Panic(st, auction_end_time.err)
        ELSE IF ~AuctionOver(e.block_timestamp, auction_end_time.val)
        THEN Panic(st, AuctionNotEnded)
        ELSE LET claimed == read_bool(st, "claimed")
             IN  IF ~claimed.ok THEN Panic(st, claimed.err)
                 ELSE IF claimed.val THEN Panic(st, AlreadyClaimed)
                 ELSE LET s1 == MarkClaimed(st)
                          auctioneer == read_AccountId(s1, "auctioneer")
                          highest_bid == read_Bid(s1, "highest_bid")
                      IN  IF ~auctioneer.ok THEN Panic(s1, auctioneer.err)
                          ELSE IF ~highest_bid.ok THEN Panic(s1, highest_bid.err)
                          ELSE Return(state_write(s1),
                                      Payout(auctioneer.val, highest_bid.val), <<>>)

\* a view method returning one decoded slot
view(st, r) == IF r.ok THEN Return(st, <<>>, r.val) ELSE Panic(st, r.err)

get_highest_bid(st) == view(st, read_Bid(st, "highest_bid"))

get_auction_end_time(st) == view(st, read_U64(st, "auction_end_time"))

get_auctioneer(st) == view(st, read_AccountId(st, "auctioneer"))

get_claimed(st) == view(st, read_bool(st, "claimed"))

\* -------------------------------------------------------- the collections
\* i as u8
as_u8(i) == i % 256

\* Vec<u8>: u32 length, then the bytes
to_vec_Vec_u8(v) == to_vec_u32(Len(v)) \o v

from_slice_Vec_u8(bytes) ==
    IF Len(bytes) >= 4 /\ from_le_bytes(SubSeq(bytes, 1, 4)) = Len(bytes) - 4
    THEN Ok(SubSeq(bytes, 5, Len(bytes)))
    ELSE DecodeErr(<<>>)

read_Vec_u8(st, key) ==
    unwrap(storage_read(st, key), from_slice_Vec_u8(storage_read(st, key).val))

\* store::Vector<u8>: its length (u32) and its prefix; the elements are not
\* part of the encoding, they live in slots of their own
to_vec_Vector(v) == to_vec_u32(v.len) \o to_vec_Vec_u8(v.prefix)

NoVector == [len |-> 0, prefix |-> <<>>]

from_slice_Vector(bytes) ==
    IF Len(bytes) >= 8 /\ from_le_bytes(SubSeq(bytes, 5, 8)) = Len(bytes) - 8
    THEN Ok([len |-> from_le_bytes(SubSeq(bytes, 1, 4)), prefix |-> SubSeq(bytes, 9, Len(bytes))])
    ELSE DecodeErr(NoVector)

read_Vector(st, key) ==
    unwrap(storage_read(st, key), from_slice_Vector(storage_read(st, key).val))

\* store::IterableMap<u8, u8>: the Vector of its keys and the prefix of its
\* LookupMap of values
to_vec_IterableMap(m) == to_vec_Vector(m.keys) \o to_vec_Vec_u8(m.values)

NoIterableMap == [keys |-> NoVector, values |-> <<>>]

from_slice_IterableMap(bytes) ==
    IF Len(bytes) < 8 \/ Len(bytes) < 12 + from_le_bytes(SubSeq(bytes, 5, 8))
    THEN DecodeErr(NoIterableMap)
    ELSE LET p == 8 + from_le_bytes(SubSeq(bytes, 5, 8))
         IN  IF from_le_bytes(SubSeq(bytes, p + 1, p + 4)) # Len(bytes) - (p + 4)
             THEN DecodeErr(NoIterableMap)
             ELSE Ok([keys |-> from_slice_Vector(SubSeq(bytes, 1, p)).val,
                      values |-> SubSeq(bytes, p + 5, Len(bytes))])

read_IterableMap(st, key) ==
    unwrap(storage_read(st, key), from_slice_IterableMap(storage_read(st, key).val))

\* ValueAndIndex<u8>: the value and the index of its key in the key Vector
to_vec_ValueAndIndex(value, key_index) == <<value>> \o to_vec_u32(key_index)

\* one byte of a storage key, as text
Chr(b) ==
    CASE b = 115 -> "s"
      [] b = 109 -> "m"
      [] b = 118 -> "v"
      [] OTHER -> "<" \o ToString(b) \o ">"

RECURSIVE key_str(_)
\* a storage key given as bytes, as the text the storage is indexed by
key_str(bytes) == IF bytes = <<>> THEN "" ELSE Chr(Head(bytes)) \o key_str(Tail(bytes))

\* the prefixes init gives the collections: b"s", and b"m" with "v" and "m"
Prefixes == {<<115>>, <<109, 118>>, <<109, 109>>}

\* the element keys of the collections, computed once
index_keys ==
    [prefix \in Prefixes |->
        [index \in 0..(MaxFills * FillCount - 1) |-> key_str(prefix \o to_vec_u32(index))]]

lookup_keys == [prefix \in Prefixes |-> [k \in 0..255 |-> key_str(prefix \o <<k>>)]]

\* the slot of element index of a store::Vector: prefix ++ index (u32)
index_to_lookup_key(prefix, index) ==
    IF prefix \in Prefixes /\ index < MaxFills * FillCount
    THEN index_keys[prefix][index]
    ELSE key_str(prefix \o to_vec_u32(index))

\* the slot of key k of a store::LookupMap<u8, _>: prefix ++ k
lookup_key(prefix, k) ==
    IF prefix \in Prefixes THEN lookup_keys[prefix][k] ELSE key_str(prefix \o <<k>>)

RECURSIVE pushed(_, _, _, _)
\* the element slots that iterations lo..hi of the loop
\* for i in 0..1000 { v.push(i as u8) } write to a Vector that had len
\* elements before the loop
pushed(prefix, len, lo, hi) ==
    IF lo = hi THEN index_to_lookup_key(prefix, len + lo) :> <<as_u8(lo)>>
    ELSE pushed(prefix, len, lo, (lo + hi) \div 2)
            @@ pushed(prefix, len, (lo + hi) \div 2 + 1, hi)

\* the bytes the same loop appends to a Vec<u8>
Pushes == [j \in 1..FillCount |-> as_u8(j - 1)]

\* the slots of writes laid over st
storage_write_all(st, writes) == writes @@ st

\* slip: the filled vector written to another slot
fill_vector_wrong_slot(st) ==
    LET vector == read_Vec_u8(st, "vector")
    IN  IF ~vector.ok THEN Panic(st, vector.err)
        ELSE Return(state_write(storage_write(st, "auctioneer",
                                              to_vec_Vec_u8(vector.val \o Pushes))),
                    <<>>, <<>>)

fill_vector(st) ==
    LET vector == read_Vec_u8(st, "vector")
    IN  IF ~vector.ok THEN Panic(st, vector.err)
        ELSE Return(state_write(storage_write(st, "vector",
                                              to_vec_Vec_u8(vector.val \o Pushes))),
                    <<>>, <<>>)

fill_sdk_vector(st) ==
    LET sdk_vector == read_Vector(st, "s")
    IN  IF ~sdk_vector.ok THEN Panic(st, sdk_vector.err)
        ELSE LET v  == [sdk_vector.val EXCEPT !.len = @ + FillCount]
                 s1 == storage_write(st, "s", to_vec_Vector(v))
                 \* Drop flushes the cached elements
                 s2 == storage_write_all(s1, pushed(sdk_vector.val.prefix, sdk_vector.val.len,
                                                    0, FillCount - 1))
             IN  Return(state_write(s2), <<>>, <<>>)

\* the keys 0..255 in the order the loop first inserts them
InsertedKeys == [j \in 1..(IF FillCount < 256 THEN FillCount ELSE 256) |-> j - 1]

RECURSIVE inserted(_, _, _, _)
\* the slots written for the vacant keys new[lo..hi]: the key appended to
\* the key Vector, and the value with the index of its key
inserted(m, new, lo, hi) ==
    IF lo = hi
    THEN (index_to_lookup_key(m.keys.prefix, m.keys.len + lo - 1) :> <<new[lo]>>)
            @@ (lookup_key(m.values, new[lo])
                    :> to_vec_ValueAndIndex(new[lo], m.keys.len + lo - 1))
    ELSE inserted(m, new, lo, (lo + hi) \div 2) @@ inserted(m, new, (lo + hi) \div 2 + 1, hi)

RECURSIVE replaced(_, _, _, _, _)
\* the slots written for the occupied keys old[lo..hi]: the value is
\* replaced, the index of the key is kept
replaced(st, m, old, lo, hi) ==
    IF lo = hi
    THEN lookup_key(m.values, old[lo])
            :> (<<old[lo]>> \o SubSeq(st[lookup_key(m.values, old[lo])], 2, 5))
    ELSE replaced(st, m, old, lo, (lo + hi) \div 2)
            @@ replaced(st, m, old, (lo + hi) \div 2 + 1, hi)

fill_sdk_iterable_map(st) ==
    LET sdk_iterable_map == read_IterableMap(st, "i")
    IN  IF ~sdk_iterable_map.ok THEN Panic(st, sdk_iterable_map.err)
        ELSE LET m == sdk_iterable_map.val
                 Vacant(k) == lookup_key(m.values, k) \notin DOMAIN st
                 Occupied(k) == ~Vacant(k)
                 new == SelectSeq(InsertedKeys, Vacant)
                 old == SelectSeq(InsertedKeys, Occupied)
                 m1 == [m EXCEPT !.keys.len = @ + Len(new)]
                 s1 == storage_write(st, "i", to_vec_IterableMap(m1))
                 \* Drop flushes the keys and the values
                 s2 == IF new = <<>> THEN s1
                       ELSE storage_write_all(s1, inserted(m, new, 1, Len(new)))
                 s3 == IF old = <<>> THEN s2
                       ELSE storage_write_all(s2, replaced(st, m, old, 1, Len(old)))
             IN  Return(state_write(s3), <<>>, <<>>)

get_vector(st) == view(st, read_Vec_u8(st, "vector"))

\* reads the slot "a", which no method writes
get_sdk_vector(st) == view(st, read_Vec_u8(st, "a"))

\* -------------------------------------------------------------------- host
\* slip: the writes made before a panic are kept
Commit_partial(st, out) == out.storage

\* The writes of a call that panics are discarded.
Commit(st, out) == IF out.ok THEN out.storage ELSE st

NoCall ==
    [op |-> "none", caller |-> <<>>, deposit |-> 0, end_time |-> 0, auctioneer |-> <<>>,
     ok |-> TRUE, err |-> "", transfers |-> <<>>, ret |-> <<>>]

NoInit == [end_time |-> 0, auctioneer |-> <<>>, done |-> FALSE]

NothingWritten == [highest_bid |-> NoBid, claimed |-> FALSE]

\* the record and the flag a successful call of op writes, as values
Writes(op, e) ==
    IF op = "init" THEN [highest_bid |-> SentinelBid(e), claimed |-> FALSE]
    ELSE IF op = "bid" THEN [written EXCEPT !.highest_bid = NewBid(e)]
    ELSE IF op = "claim" THEN [written EXCEPT !.claimed = TRUE]
    ELSE written

NoEscrow == [held |-> 0, paid |-> 0]

RECURSIVE total(_)
\* the sum of the amounts of transfers
total(transfers) ==
    IF transfers = <<>> THEN 0 ELSE Head(transfers).amount + total(Tail(transfers))

\* the transfers that leave the contract's own account
leaving(transfers) == SelectSeq(transfers, LAMBDA t : t.to # ContractAccount)

\* the deposit of an accepted bid is held, the refund to another account is
\* released; claim pays
Settle(op, deposit, transfers) ==
    IF op = "bid" THEN [escrow EXCEPT !.held = @ + deposit - total(leaving(transfers))]
    ELSE IF op = "claim" THEN [escrow EXCEPT !.paid = @ + total(transfers)]
    ELSE escrow

Call(op, caller, deposit, end_time, auctioneer, out) ==
    /\ storage' = Commit(storage, out)
    /\ pre' = storage
    /\ last' = [op |-> op, caller |-> caller, deposit |-> deposit, end_time |-> end_time,
                auctioneer |-> auctioneer, ok |-> out.ok, err |-> out.err,
                transfers |-> IF out.ok THEN out.transfers ELSE <<>>, ret |-> out.ret]
    /\ payouts' = IF op = "claim" /\ out.ok THEN payouts + Len(out.transfers) ELSE payouts
    /\ inited' = IF op = "init" /\ out.ok
                 THEN [end_time |-> end_time, auctioneer |-> auctioneer, done |-> TRUE]
                 ELSE inited
    /\ written' = IF out.ok THEN Writes(op, env(caller, deposit)) ELSE written
    /\ escrow' = IF out.ok THEN Settle(op, deposit, out.transfers) ELSE escrow
    /\ UNCHANGED <<now, block_height>>

Init ==
    /\ storage = <<>>
    /\ pre = <<>>
    /\ now = 1
    /\ block_height = 4
    /\ last = NoCall
    /\ inited = NoInit
    /\ written = NothingWritten
    /\ escrow = NoEscrow
    /\ payouts = 0

DoInit ==
    \E caller \in InitCallers, end_time \in EndTimes, auctioneer \in Auctioneers :
        Call("init", caller, 0, end_time, auctioneer,
             init(storage, env(caller, 0), end_time, auctioneer))

DoBid ==
    \E caller \in Accounts, deposit \in Deposits :
        Call("bid", caller, deposit, 0, <<>>, bid(storage, env(caller, deposit)))

DoClaim ==
    \E caller \in Accounts :
        Call("claim", caller, 0, 0, <<>>, claim(storage, env(caller, 0)))

GetHighestBid == Call("get_highest_bid", <<>>, 0, 0, <<>>, get_highest_bid(storage))

GetAuctionEndTime ==
    Call("get_auction_end_time", <<>>, 0, 0, <<>>, get_auction_end_time(storage))

GetAuctioneer == Call("get_auctioneer", <<>>, 0, 0, <<>>, get_auctioneer(storage))

GetClaimed == Call("get_claimed", <<>>, 0, 0, <<>>, get_claimed(storage))

\* the next block: the clock advances
Tick ==
    /\ now < MaxTime
    /\ now' = now + 1
    /\ block_height' = block_height + 1
    /\ last' = NoCall
    /\ pre' = storage
    /\ UNCHANGED <<storage, inited, written, escrow, payouts>>

Next ==
    \/ DoInit
    \/ DoBid
    \/ DoClaim
    \/ GetHighestBid
    \/ GetAuctionEndTime
    \/ GetAuctioneer
    \/ GetClaimed
    \/ Tick

Spec == Init /\ [][Next]_vars

\* ------------------------------------------- the contract with its fills
\* The same contract with fill_vector, fill_sdk_vector, fill_sdk_iterable_map,
\* get_vector and get_sdk_vector called as well, by one bidder and with one
\* auction.
DemoEndTimes == {MaxEndTime - 1}

DemoDeposits == {MaxAmount - 1}

DemoInit ==
    \E end_time \in DemoEndTimes :
        Call("init", ContractAccount, 0, end_time, AuctioneerAccount,
             init(storage, env(ContractAccount, 0), end_time, AuctioneerAccount))

DemoBid ==
    \E deposit \in DemoDeposits :
        Call("bid", AliceAccount, deposit, 0, <<>>, bid(storage, env(AliceAccount, deposit)))

DemoClaim == Call("claim", AliceAccount, 0, 0, <<>>, claim(storage, env(AliceAccount, 0)))

\* the number of times fill_vector has succeeded
vector_fills ==
    IF read_Vec_u8(storage, "vector").ok
    THEN Len(read_Vec_u8(storage, "vector").val) \div FillCount ELSE 0

\* the number of times fill_sdk_vector has succeeded
sdk_vector_fills ==
    IF read_Vector(storage, "s").ok
    THEN read_Vector(storage, "s").val.len \div FillCount ELSE 0

FillVector ==
    /\ vector_fills < MaxFills
    /\ Call("fill_vector", AliceAccount, 0, 0, <<>>, fill_vector(storage))

FillSdkVector ==
    /\ sdk_vector_fills < MaxFills
    /\ Call("fill_sdk_vector", AliceAccount, 0, 0, <<>>, fill_sdk_vector(storage))

FillSdkIterableMap ==
    Call("fill_sdk_iterable_map", AliceAccount, 0, 0, <<>>, fill_sdk_iterable_map(storage))

GetVector == Call("get_vector", <<>>, 0, 0, <<>>, get_vector(storage))

GetSdkVector == Call("get_sdk_vector", <<>>, 0, 0, <<>>, get_sdk_vector(storage))

\* the next block, while the auction is open or has just ended: the
\* contract is initialized in the block it is deployed in, and nothing
\* depends on the clock once it is past end_time
DemoTick ==
    /\ state_exists(storage)
    /\ now <= get_auction_end_time(storage).ret
    /\ now < MaxTime
    /\ now' = now + 1
    /\ block_height' = block_height + 1
    /\ last' = NoCall
    /\ pre' = storage
    /\ UNCHANGED <<storage, inited, written, escrow, payouts>>

NextDemo ==
    \/ DemoInit
    \/ DemoBid
    \/ DemoClaim
    \/ FillVector
    \/ FillSdkVector
    \/ FillSdkIterableMap
    \/ GetVector
    \/ GetSdkVector
    \/ GetHighestBid
    \/ GetAuctionEndTime
    \/ GetAuctioneer
    \/ GetClaimed
    \/ DemoTick

SpecDemo == Init /\ [][NextDemo]_vars

\* ------------------------------------------------- what the accessors see
initialized == state_exists(storage)

highest_bid == get_highest_bid(storage).ret

auction_end_time == get_auction_end_time(storage).ret

auctioneer == get_auctioneer(storage).ret

claimed == get_claimed(storage).ret

\* the same, in the storage the most recent call started from
was_initialized == state_exists(pre)

old_highest_bid == get_highest_bid(pre).ret

old_claimed == get_claimed(pre).ret

payouts_before == payouts - (IF last.op = "claim" THEN Len(last.transfers) ELSE 0)

\* the most recent call panicked: nothing committed, nothing scheduled
Rejected(msg) ==
    /\ ~last.ok
    /\ last.err = msg
    /\ last.transfers = <<>>
    /\ storage = pre
    /\ payouts = payouts_before

\* ------------------------------------------------------------------ claims

\* C1: across any call the stored highest_bid amount never goes down, an
\* accepted bid leaves it strictly greater than before, and a call that
\* rewrites the highest_bid slot stores a strictly greater amount.
C1_StrictlyIncreasing ==
    (was_initialized /\ initialized) =>
        /\ highest_bid.bid >= old_highest_bid.bid
        /\ (last.op = "bid" /\ last.ok) => highest_bid.bid > old_highest_bid.bid
        /\ (storage["highest_bid"] # pre["highest_bid"])
              => highest_bid.bid > old_highest_bid.bid

\* an accepted bid that superseded an earlier accepted bid
C1_Witness ==
    /\ last.op = "bid" /\ last.ok
    /\ old_highest_bid.bid >= 2
    /\ highest_bid.bid = last.deposit

\* C2 as stated: a bid of at most the current highest amount is rejected
\* with BidTooLow in every state in which it is called.
C2_AlwaysBidTooLow ==
    (last.op = "bid" /\ was_initialized /\ last.deposit <= old_highest_bid.bid)
        => Rejected(BidTooLow)

\* C2 amended: a bid of at most the current highest amount never changes
\* state; it is rejected with BidTooLow when the clock is before end_time and
\* with AuctionEnded otherwise.
C2_LowBidRejected ==
    (last.op = "bid" /\ was_initialized /\ last.deposit <= old_highest_bid.bid)
        => Rejected(IF now < auction_end_time THEN BidTooLow ELSE AuctionEnded)

\* a bid equal to an accepted bid was rejected before end_time
C2_Witness ==
    /\ last.op = "bid" /\ ~last.ok /\ last.err = BidTooLow
    /\ last.deposit = old_highest_bid.bid
    /\ last.deposit >= 2
    /\ now < auction_end_time

\* C3: once the clock is past end_time every bid is rejected with AuctionEnded
\* and changes nothing, whatever it attaches and whoever sends it, claimed or not.
C3_BidAfterEnd ==
    (last.op = "bid" /\ was_initialized /\ now > auction_end_time)
        => Rejected(AuctionEnded)

\* a bid above the highest bid was rejected after end_time, after the claim
C3_Witness ==
    /\ last.op = "bid" /\ ~last.ok /\ last.err = AuctionEnded
    /\ was_initialized /\ now > auction_end_time
    /\ old_claimed
    /\ last.deposit > old_highest_bid.bid

\* C4: a claim while the clock is before end_time is rejected with
\* AuctionNotEnded, leaves claimed as it was and schedules no transfer.
C4_ClaimBeforeEnd ==
    (last.op = "claim" /\ was_initialized /\ now < auction_end_time)
        => (Rejected(AuctionNotEnded) /\ claimed = old_claimed)

\* a claim was rejected before end_time while a real bid was standing
C4_Witness ==
    /\ last.op = "claim" /\ ~last.ok /\ last.err = AuctionNotEnded
    /\ was_initialized /\ now < auction_end_time
    /\ old_highest_bid.bid >= 2

\* C5: at most one payout is ever scheduled, and after a claim has succeeded
\* every later claim is rejected with AlreadyClaimed and changes nothing.
C5_ClaimOnce ==
    /\ payouts <= 1
    /\ (last.op = "claim" /\ payouts_before >= 1) => Rejected(AlreadyClaimed)

\* a second claim, by another account than the auctioneer, was rejected
C5_Witness ==
    /\ last.op = "claim" /\ ~last.ok /\ last.err = AlreadyClaimed
    /\ payouts_before = 1
    /\ last.caller # auctioneer

\* C6: claimed is false right after init, never goes back from true to
\* false, and is true only while the clock is past end_time.
C6_ClaimedFlag ==
    /\ (last.op = "init" /\ last.ok) => ~claimed
    /\ (initialized /\ claimed) => now > auction_end_time
    /\ (was_initialized /\ old_claimed) => (initialized /\ claimed)

\* the flag was set by a claim
C6_Witness ==
    /\ last.op = "claim" /\ last.ok
    /\ ~old_claimed /\ claimed
    /\ now > auction_end_time

\* C7: every accepted bid schedules exactly one transfer, of the superseded
\* record's amount to the superseded record's bidder.
C7_RefundOnEveryBid ==
    (last.op = "bid" /\ last.ok)
        => last.transfers = <<Transfer(old_highest_bid.bidder, old_highest_bid.bid)>>

\* the first bid after init sent the sentinel's unit to the contract's account
C7_Witness ==
    /\ last.op = "bid" /\ last.ok
    /\ last.transfers = <<Transfer(ContractAccount, 1)>>
    /\ last.caller # ContractAccount

\* C8: a successful claim schedules exactly one transfer, of the highest
\* bid's amount to the auctioneer given to init; and once the clock is past
\* end_time an unclaimed auction can be claimed by every account, with that
\* same transfer.
C8_PayoutToAuctioneer ==
    /\ (last.op = "claim" /\ last.ok)
          => /\ last.transfers = <<Transfer(inited.auctioneer, old_highest_bid.bid)>>
             /\ highest_bid = old_highest_bid
    /\ (initialized /\ now > auction_end_time /\ ~claimed)
          => \A a \in Accounts :
                /\ claim(storage, env(a, 0)).ok
                /\ claim(storage, env(a, 0)).transfers
                     = <<Transfer(inited.auctioneer, highest_bid.bid)>>

\* an account that is not the auctioneer claimed a real bid for the auctioneer
C8_Witness ==
    /\ last.op = "claim" /\ last.ok
    /\ last.caller # auctioneer
    /\ last.transfers[1].to = auctioneer
    /\ last.transfers[1].amount >= 2

\* C9: right after init the four accessors return the sentinel (owned by
\* the contract's account, 1 yoctoNEAR), the given end_time, the given
\* auctioneer, and false.
C9_AfterInit ==
    (last.op = "init" /\ last.ok) =>
        /\ get_highest_bid(storage).ok
        /\ get_highest_bid(storage).ret.bidder = ContractAccount
        /\ get_highest_bid(storage).ret.bid = 1
        /\ get_auction_end_time(storage).ok
        /\ get_auction_end_time(storage).ret = last.end_time
        /\ get_auctioneer(storage).ok
        /\ get_auctioneer(storage).ret = last.auctioneer
        /\ get_claimed(storage).ok
        /\ get_claimed(storage).ret = FALSE

\* init succeeded with the largest end_time
C9_Witness ==
    /\ last.op = "init" /\ last.ok
    /\ last.end_time = MaxEndTime
    /\ last.auctioneer = AuctioneerAccount

C12_InitOnce ==
    (last.op = "init") =>
        IF was_initialized
        THEN /\ Rejected(AlreadyInitialized)
             /\ highest_bid = old_highest_bid
             /\ claimed = old_claimed
             /\ auction_end_time = inited.end_time
             /\ auctioneer = inited.auctioneer
        ELSE last.ok

\* a second init, with other arguments, was rejected after a bid and the claim
C12_Witness ==
    /\ last.op = "init" /\ ~last.ok
    /\ old_claimed
    /\ old_highest_bid.bid >= 2
    /\ last.end_time # inited.end_time
    /\ last.auctioneer # inited.auctioneer

\* the storage with the auctioneer slot missing (no call of the contract
\* removes a slot; this is the defect the handlers unwrap against)
without_auctioneer == [k \in (DOMAIN storage) \ {"auctioneer"} |-> storage[k]]

Accessors == {"get_highest_bid", "get_auction_end_time", "get_auctioneer", "get_claimed"}

\* C14: on an initialized instance each of the four accessors succeeds,
\* returns the value last written to its slot, changes no slot and
\* schedules no transfer.
C14_Accessors ==
    (last.op \in Accessors /\ was_initialized) =>
        /\ last.ok
        /\ storage = pre
        /\ last.transfers = <<>>
        /\ payouts = payouts_before
        /\ last.op = "get_highest_bid" => last.ret = written.highest_bid
        /\ last.op = "get_auction_end_time" => last.ret = inited.end_time
        /\ last.op = "get_auctioneer" => last.ret = inited.auctioneer
        /\ last.op = "get_claimed" => last.ret = written.claimed

\* get_highest_bid returned a real bid after the claim
C14_Witness ==
    /\ last.op = "get_highest_bid" /\ last.ok
    /\ last.ret.bid >= 2
    /\ last.ret.bidder = AliceAccount
    /\ claimed

\* C17: right after init and before end_time a bid of 0 or 1 is rejected
\* with BidTooLow and every bid of 2 or more is accepted; an accepted bid
\* stores at least 2, and a stored amount below 2 is the sentinel's.
C17_ReserveFloor ==
    /\ (last.op = "init" /\ last.ok /\ now < auction_end_time) =>
          \A a \in Accounts, d \in Deposits :
              IF d >= 2 THEN bid(storage, env(a, d)).ok
              ELSE /\ ~bid(storage, env(a, d)).ok
                   /\ bid(storage, env(a, d)).err = BidTooLow
    /\ (last.op = "bid" /\ last.ok) => highest_bid.bid >= 2
    /\ (initialized /\ highest_bid.bid < 2) =>
          (highest_bid.bid = 1 /\ highest_bid.bidder = ContractAccount)

\* the smallest acceptable bid was accepted over the sentinel
C17_Witness ==
    /\ last.op = "bid" /\ last.ok
    /\ last.deposit = 2
    /\ old_highest_bid.bid = 1

\* C18: while the clock equals end_time a bid is rejected with AuctionEnded
\* and a claim with AuctionNotEnded, and highest_bid and claimed do not change.
C18_AtEndTime ==
    (was_initialized /\ now = auction_end_time) =>
        /\ last.op = "bid" => Rejected(AuctionEnded)
        /\ last.op = "claim" => Rejected(AuctionNotEnded)
        /\ highest_bid = old_highest_bid
        /\ claimed = old_claimed

\* a higher bid was rejected at end_time itself
C18_Witness ==
    /\ last.op = "bid" /\ ~last.ok
    /\ was_initialized /\ now = auction_end_time
    /\ last.deposit > highest_bid.bid

\* C19: an accepted bid stores exactly the caller, the attached amount, the
\* timestamp, block height and epoch of the call and premium = false; so
\* premium is false in every stored highest_bid.
C19_StoredBid ==
    /\ (last.op = "bid" /\ last.ok) =>
          highest_bid = [bidder |-> last.caller, bid |-> last.deposit,
                         bid_time |-> now, bid_block_height |-> block_height,
                         bid_block_timestamp |-> now,
                         bid_epoch_height |-> block_height \div 2, premium |-> FALSE]
    /\ initialized => ~highest_bid.premium

\* a bid replaced an earlier bid made in an earlier block by another account
C19_Witness ==
    /\ last.op = "bid" /\ last.ok
    /\ old_highest_bid.bid >= 2
    /\ old_highest_bid.bidder # last.caller
    /\ old_highest_bid.bid_time < now

\* the environment of a call made by predecessor at block_timestamp t
env_at(t, predecessor, deposit) == [env(predecessor, deposit) EXCEPT !.block_timestamp = t]

\* The scenario of test_contract_is_operational run from storage st: alice
\* bids x, bob bids y, alice bids x again, then, one tick after end_time,
\* claimer claims twice.  Each call starts from what the one before it
\* committed.
Scenario(st, x, y, claimer) ==
    LET end   == get_auction_end_time(st).ret
        bid1  == bid(st, env(AliceAccount, x))
        s1    == Commit(st, bid1)
        bid2  == bid(s1, env(BobAccount, y))
        s2    == Commit(s1, bid2)
        bid3  == bid(s2, env(AliceAccount, x))
        s3    == Commit(s2, bid3)
        claim1 == claim(s3, env_at(end + 1, claimer, 0))
        s4    == Commit(s3, claim1)
        claim2 == claim(s4, env_at(end + 1, claimer, 0))
        s5    == Commit(s4, claim2)
    IN  [bid1 |-> bid1, s1 |-> s1, bid2 |-> bid2, s2 |-> s2, bid3 |-> bid3, s3 |-> s3,
         claim1 |-> claim1, s4 |-> s4, claim2 |-> claim2, s5 |-> s5]

\* the outcomes the scenario states, for the amounts x < y
ScenarioAsStated(st, x, y, claimer) ==
    /\ Scenario(st, x, y, claimer).bid1.ok
    /\ get_highest_bid(Scenario(st, x, y, claimer).s1).ret.bidder = AliceAccount
    /\ get_highest_bid(Scenario(st, x, y, claimer).s1).ret.bid = x
    /\ Scenario(st, x, y, claimer).bid2.ok
    /\ get_highest_bid(Scenario(st, x, y, claimer).s2).ret.bidder = BobAccount
    /\ get_highest_bid(Scenario(st, x, y, claimer).s2).ret.bid = y
    /\ Scenario(st, x, y, claimer).bid2.transfers = <<Transfer(AliceAccount, x)>>
    /\ ~Scenario(st, x, y, claimer).bid3.ok
    /\ Scenario(st, x, y, claimer).bid3.err = BidTooLow
    /\ Scenario(st, x, y, claimer).s3 = Scenario(st, x, y, claimer).s2
    /\ Scenario(st, x, y, claimer).claim1.ok
    /\ Scenario(st, x, y, claimer).claim1.transfers
          = <<Transfer(get_auctioneer(st).ret, y)>>
    /\ get_claimed(Scenario(st, x, y, claimer).s4).ret = TRUE
    /\ ~Scenario(st, x, y, claimer).claim2.ok
    /\ Scenario(st, x, y, claimer).claim2.err = AlreadyClaimed
    /\ Scenario(st, x, y, claimer).s5 = Scenario(st, x, y, claimer).s4

\* the scenario starts right after init, with end_time still ahead
ScenarioStart == last.op = "init" /\ last.ok /\ now < auction_end_time

\* C15 as stated: with alice bidding 1 unit and bob 2 units the scenario
\* gives the stated outcomes.
C15_ScenarioOneTwo ==
    ScenarioStart => \A c \in Accounts : ScenarioAsStated(storage, 1, 2, c)

\* C15: with alice bidding 2 units and bob 3 units, both above the sentinel's
\* 1 unit, the scenario gives the stated outcomes: both bids accepted, alice
\* refunded her 2 units, her repeated bid rejected with BidTooLow and state
\* unchanged, the claim after end_time pays 3 units to the auctioneer and
\* sets claimed, and a further claim is rejected with AlreadyClaimed.
C15_ScenarioTwoThree ==
    ScenarioStart => \A c \in Accounts : ScenarioAsStated(storage, 2, 3, c)

\* the scenario's start, from which alice's bid of 1 unit fails and her bid
\* of 2 units is accepted
C15_Witness ==
    /\ ScenarioStart
    /\ inited.auctioneer = AuctioneerAccount
    /\ Scenario(storage, 1, 2, BobAccount).bid1.err = BidTooLow
    /\ Scenario(storage, 2, 3, BobAccount).claim1.ok

\* ------------------------------------------- the struct-field contract
\* tests/default-contract: the same auction with its state in the fields of
\* the contract struct.  A state is the struct, or none before init
\* (PanicOnDefault).
DefaultNone ==
    [exists |-> FALSE, highest_bid |-> NoBid, auction_end_time |-> 0,
     auctioneer |-> <<>>, claimed |-> FALSE]

MethodIsPrivate == "Method init is private"

NotInitialized == "The contract is not initialized"

\* #[private]: only the contract's own account may call
PrivateGuard(e) == e.predecessor_account_id = e.current_account_id

default_init(d, e, end_time, auctioneer_id) ==
    IF ~PrivateGuard(e) THEN Panic(d, MethodIsPrivate)
    ELSE IF d.exists THEN Panic(d, AlreadyInitialized)
    ELSE Return([exists |-> TRUE, highest_bid |-> SentinelBid(e),
                 auction_end_time |-> end_time, auctioneer |-> auctioneer_id,
                 claimed |-> FALSE], <<>>, <<>>)

default_bid(d, e) ==
    IF ~d.exists THEN Panic(d, NotInitialized)
    ELSE IF ~AuctionOngoing(e.block_timestamp, d.auction_end_time)
    THEN Panic(d, AuctionEnded)
    ELSE IF ~HigherBid(e.attached_deposit, d.highest_bid.bid) THEN Panic(d, BidTooLow)
    ELSE Return([d EXCEPT !.highest_bid = NewBid(e)],
                Refund(d.highest_bid.bidder, d.highest_bid.bid), <<>>)

default_claim(d, e) ==
    IF ~d.exists THEN Panic(d, NotInitialized)
    ELSE IF ~AuctionOver(e.block_timestamp, d.auction_end_time)
    THEN Panic(d, AuctionNotEnded)
    ELSE IF d.claimed THEN Panic(d, AlreadyClaimed)
    ELSE Return([d EXCEPT !.claimed = TRUE], Payout(d.auctioneer, d.highest_bid), <<>>)

default_get_highest_bid(d) ==
    IF d.exists THEN Return(d, <<>>, d.highest_bid) ELSE Panic(d, NotInitialized)

default_get_auction_end_time(d) ==
    IF d.exists THEN Return(d, <<>>, d.auction_end_time) ELSE Panic(d, NotInitialized)

default_get_auctioneer(d) ==
    IF d.exists THEN Return(d, <<>>, d.auctioneer) ELSE Panic(d, NotInitialized)

default_get_claimed(d) ==
    IF d.exists THEN Return(d, <<>>, d.claimed) ELSE Panic(d, NotInitialized)

\* the struct-field state that has gone through the same calls as the
\* key-value storage st, as long as the two contracts have agreed
AsFields(st) ==
    IF ~state_exists(st) THEN DefaultNone
    ELSE [exists |-> TRUE,
          highest_bid |-> get_highest_bid(st).ret,
          auction_end_time |-> get_auction_end_time(st).ret,
          auctioneer |-> get_auctioneer(st).ret,
          claimed |-> get_claimed(st).ret]

\* a panic on a missing slot and a panic on a missing struct are the same
\* failure of the two encodings
ErrorKind(msg) == IF msg \in {UnwrapNone, NotInitialized} THEN "StorageCorrupt" ELSE msg

\* the four accessors answer alike on st and d: all succeed with equal
\* values, or all fail
AccessorsAgree(st, d) ==
    /\ get_highest_bid(st).ok = default_get_highest_bid(d).ok
    /\ get_highest_bid(st).ret = default_get_highest_bid(d).ret
    /\ get_auction_end_time(st).ok = default_get_auction_end_time(d).ok
    /\ get_auction_end_time(st).ret = default_get_auction_end_time(d).ret
    /\ get_auctioneer(st).ok = default_get_auctioneer(d).ok
    /\ get_auctioneer(st).ret = default_get_auctioneer(d).ret
    /\ get_claimed(st).ok = default_get_claimed(d).ok
    /\ get_claimed(st).ret = default_get_claimed(d).ret

\* one call made on both contracts, from st and from d, with outcomes k and o
SameOutcome(st, k, d, o) ==
    /\ k.ok = o.ok
    /\ ErrorKind(k.err) = ErrorKind(o.err)
    /\ k.transfers = o.transfers
    /\ AccessorsAgree(Commit(st, k), Commit(d, o))

\* C16: from every state the two contracts can be in together, each init,
\* bid and claim call succeeds or fails alike in both, with the same
\* transfer, and leaves the four accessors returning equal values.
C16_Equivalent ==
    /\ AccessorsAgree(storage, AsFields(storage))
    /\ \A caller \in Accounts, end_time \in EndTimes, a \in Auctioneers :
          SameOutcome(storage, init(storage, env(caller, 0), end_time, a),
                      AsFields(storage),
                      default_init(AsFields(storage), env(caller, 0), end_time, a))
    /\ \A caller \in Accounts, deposit \in Deposits :
          SameOutcome(storage, bid(storage, env(caller, deposit)),
                      AsFields(storage), default_bid(AsFields(storage), env(caller, deposit)))
    /\ \A caller \in Accounts :
          SameOutcome(storage, claim(storage, env(caller, 0)),
                      AsFields(storage), default_claim(AsFields(storage), env(caller, 0)))

\* C11: once init has succeeded, the auctioneer and auction_end_time slots
\* keep the bytes init wrote through every bid, claim, fill_vector,
\* fill_sdk_vector, fill_sdk_iterable_map, accessor and refused init call,
\* successful or failed: the accessors return the arguments of init.
C11_Immutable ==
    /\ inited.done =>
          /\ get_auctioneer(storage).ok
          /\ get_auctioneer(storage).ret = inited.auctioneer
          /\ get_auction_end_time(storage).ok
          /\ get_auction_end_time(storage).ret = inited.end_time
    /\ was_initialized =>
          /\ storage["auctioneer"] = pre["auctioneer"]
          /\ storage["auction_end_time"] = pre["auction_end_time"]

\* every kind of call has acted on the initialized contract: a bid was
\* accepted, the claim was paid, and the three collections are filled
C11_Witness ==
    /\ inited.done
    /\ highest_bid.bidder = AliceAccount
    /\ claimed
    /\ vector_fills = MaxFills
    /\ sdk_vector_fills = MaxFills
    /\ read_IterableMap(storage, "i").val.keys.len = 256
    /\ last.op = "get_vector" /\ Len(last.ret) = MaxFills * FillCount

\* C20: before init every operation other than init fails on its first
\* storage read with the missing-slot panic and writes nothing.
C20_BeforeInit ==
    (~was_initialized /\ last.op \notin {"none", "init"}) =>
        /\ Rejected(UnwrapNone)
        /\ storage = <<>>

\* a fill was refused on the uninitialized contract
C20_Witness ==
    /\ ~was_initialized
    /\ last.op = "fill_sdk_iterable_map"
    /\ ~last.ok

\* C21: once claimed is true the clock is past end_time for good, so every
\* later bid is rejected, the highest_bid record stays as it was, no refund
\* is emitted, and what claim paid is the amount of the final highest bid.
C21_NoBidAfterClaim ==
    /\ (initialized /\ claimed) =>
          /\ now > auction_end_time
          /\ escrow.paid = highest_bid.bid
    /\ (was_initialized /\ old_claimed) =>
          /\ highest_bid = old_highest_bid
          /\ claimed
          /\ last.op = "bid" => Rejected(AuctionEnded)
          /\ last.transfers = <<>>

\* a bid above the paid amount was rejected after the claim
C21_Witness ==
    /\ was_initialized /\ old_claimed
    /\ last.op = "bid" /\ ~last.ok
    /\ last.deposit > highest_bid.bid
    /\ highest_bid.bid >= 2

\* C22: on an initialized instance the funds held from bidders (accepted
\* deposits minus refunds sent to other accounts) equal highest_bid.amount,
\* and a successful claim transfers exactly the funds held, also when no
\* bid was ever accepted.
C22_EscrowConserved ==
    /\ initialized => escrow.held = highest_bid.bid
    /\ (last.op = "claim" /\ last.ok) => total(last.transfers) = escrow.held

\* the elements of a store::Vector, read from their slots in index order
iter_Vector(st, v) == [j \in 1..v.len |-> st[index_to_lookup_key(v.prefix, j - 1)][1]]

\* the struct-field contract's get_sdk_vector, on the Vector kept in st
default_get_sdk_vector(st) ==
    IF read_Vector(st, "s").ok
    THEN Return(st, <<>>, iter_Vector(st, read_Vector(st, "s").val))
    ELSE Panic(st, NotInitialized)

\* C23: on the initialized key-value contract get_sdk_vector succeeds and
\* returns the elements of the Vector that init created and fill_sdk_vector
\* filled, as the struct-field contract's get_sdk_vector does.
C23_GetSdkVector ==
    (last.op = "get_sdk_vector" /\ was_initialized) =>
        /\ last.ok
        /\ last.ret = default_get_sdk_vector(storage).ret

AuctionSlots == {"highest_bid", "auction_end_time", "auctioneer", "claimed"}

FillOps == {"fill_vector", "fill_sdk_vector", "fill_sdk_iterable_map"}

\* the slots of keys are what they were before the most recent call
Untouched(keys) ==
    \A k \in keys :
        /\ k \in DOMAIN storage <=> k \in DOMAIN pre
        /\ k \in DOMAIN pre => storage[k] = pre[k]

\* C24: the three fills leave highest_bid, auction_end_time, auctioneer and
\* claimed as they were and schedule no transfer; bid changes no slot but
\* highest_bid and claim no slot but claimed, so both leave vector, s, i and
\* every element slot of the collections as they were.
C24_SlotIndependence ==
    /\ last.op \in FillOps => (Untouched(AuctionSlots) /\ last.transfers = <<>>)
    /\ last.op = "bid" =>
          Untouched(((DOMAIN storage) \cup (DOMAIN pre)) \ {"highest_bid"})
    /\ last.op = "claim" =>
          Untouched(((DOMAIN storage) \cup (DOMAIN pre)) \ {"claimed"})

\* the claim was paid on a contract whose three collections are filled and
\* whose highest bid is a real one
C24_Witness ==
    /\ last.op = "claim" /\ last.ok
    /\ highest_bid.bidder = AliceAccount
    /\ vector_fills = MaxFills
    /\ sdk_vector_fills = MaxFills
    /\ read_IterableMap(storage, "i").val.keys.len = 256

\* ------------------------------------------------------------- liveness
\* The contract initialized by its own account, with two bidders, claims by
\* every account, blocks that keep coming and claim calls that keep being
\* made.
LiveDeposits == {MaxAmount - 1, MaxAmount}

LiveInit ==
    \E end_time \in EndTimes :
        Call("init", ContractAccount, 0, end_time, AuctioneerAccount,
             init(storage, env(ContractAccount, 0), end_time, AuctioneerAccount))

LiveBid ==
    \E caller \in {AliceAccount, BobAccount}, deposit \in LiveDeposits :
        Call("bid", caller, deposit, 0, <<>>, bid(storage, env(caller, deposit)))

NextLive ==
    \/ LiveInit
    \/ LiveBid
    \/ DoClaim
    \/ Tick

IsClaimed == state_exists(storage) /\ get_claimed(storage).ret = TRUE

\* the auction is over and not yet claimed
ClaimReady == state_exists(storage) /\ now > auction_end_time /\ ~claimed

\* a claim made now succeeds, whoever calls
ClaimSucceeds == \A a \in Accounts : claim(storage, env(a, 0)).ok

\* a claim call is accepted: the step of DoClaim that pays.  Its enabling
\* condition is ClaimReady, which C25 checks against the handler for every
\* caller.
ClaimAccepted == ClaimReady /\ payouts' = payouts + 1

\* the clock does not stop below MaxTime, and a claim that would be accepted
\* is not put off forever
SpecLive == Init /\ [][NextLive]_vars /\ WF_now(Tick) /\ WF_payouts(ClaimAccepted)

\* C25: whenever the clock is past end_time and claimed is false, a claim by
\* any account succeeds; with the clock advancing and claim being called,
\* an initialized contract is eventually claimed, and claimed then stays
\* true forever.
C25_EventuallyClaimed ==
    /\ [](ClaimReady => ClaimSucceeds)
    /\ (inited.done ~> IsClaimed)
    /\ [](IsClaimed => []IsClaimed)

\* the claim was paid after end_time on an auction with a real bid
C25_Witness ==
    /\ IsClaimed
    /\ last.op = "claim" /\ last.ok
    /\ now > auction_end_time
    /\ highest_bid.bid >= 2
    /\ last.caller # auctioneer

====
